---- MODULE Spec2Model ----
(***************************************************************************)
(* OBCameraNodeFactory (src/src/ob_camera_node_factory.cpp): several       *)
(* processes on one host, each with a watchdog thread (queryDevice) and a  *)
(* hotplug callback thread, claim a camera under a POSIX named semaphore   *)
(* and a System V shared counter.                                          *)
(*                                                                         *)
(* A serial number is a sequence of ASCII codes; the empty sequence is the *)
(* empty string, and also stands for a null device_ / device_info_ (a      *)
(* device is identified by the serial number its info reports).            *)
(***************************************************************************)
EXTENDS Integers, Sequences, FiniteSets, TLC

\* ------------------------------------------------------------------ bounds
MaxList == 2
MaxCohort == 2
MaxFaults == 1

\* ------------------------------------------------------------- the universe
Procs == {"A", "B"}

Null == <<>>

\* The serial numbers the attached devices report: "x", "Y"
DeviceSerials == {<<120>>, <<89>>}

\* serial_number_ as configured: "", "X", "Y"
Targets == {<<>>, <<88>>, <<89>>}

\* A process without a serial number touches neither the semaphore nor the
\* segment, so one such process is enough; process names are interchangeable.
Configs ==
    {f \in [Procs -> Targets] :
        /\ f["A"] \in {<<>>, <<88>>}
        /\ f["B"] # <<>>
        /\ (f["A"] = <<>> => f["B"] = <<88>>)}

RECURSIVE NoRepeat(_)
NoRepeat(l) ==
    IF Len(l) <= 1 THEN TRUE
    ELSE /\ \A i \in 2..Len(l) : l[i] # l[1]
         /\ NoRepeat(Tail(l))

\* What the device directory or a hotplug notification can hand over.
Lists ==
    {l \in UNION {[1..n -> DeviceSerials] : n \in 0..MaxList} : NoRepeat(l)}

\* One more instance than there are processes: the one the name is bound to
\* plus one stale handle per other process.
SemIds == 1..(Cardinality(Procs) + 1)
SegIds == 1..(Cardinality(Procs) + 1)

VARIABLES
    serial_number_,            \* [Procs -> Targets], param "serial_number"
    device_num_,               \* cohort size, param "device_num"
    proc,                      \* "running" | "joining" | "destroyed" | "aborted"
    is_alive_,
    query,                     \* query_thread_: "top" | "start" | "done"
    device_lock_,              \* owner of the recursive lock: "free" | "query" | "hotplug"
    device_,
    device_info_,
    device_connected_,
    ob_camera_node_,           \* whether the session object exists
    pc,                        \* position inside startDevice
    device,                    \* what the scan of startDevice's list yields (lines 75-84)
    device_sem,                \* the handle sem_open returned (0: none)
    sem_held,                  \* sem_wait returned 0 and no sem_post followed yet
    num_of_connected_devices,
    shm_id,
    sem_name,                  \* the instance DEFAULT_SEM_NAME is bound to (0: unlinked)
    sem_val,
    shm_key,                   \* the segment DEFAULT_SEM_KEY is bound to (0: none)
    shm_val,
    faults,                    \* failures of external calls injected so far
    last                       \* per process: what its last completed operation did

config == <<serial_number_, device_num_>>
manager == <<device_, device_info_, device_connected_, ob_camera_node_>>
frame == <<pc, device, device_sem, sem_held, num_of_connected_devices, shm_id>>
threads == <<proc, is_alive_, query, device_lock_>>
shared == <<sem_name, sem_val, shm_key, shm_val>>
vars == <<config, manager, frame, threads, shared, faults, last>>

\* ------------------------------------------------------------ pure helpers

isalpha(ch) == ch \in 65..90 \/ ch \in 97..122

tolower(ch) == IF ch \in 65..90 THEN ch + 32 ELSE ch

\* lines 59-61
lower_sn(sn) == [i \in 1..Len(sn) |-> IF isalpha(sn[i]) THEN tolower(sn[i]) ELSE sn[i]]

\* only the exact comparison
SerialMatchesExactly(serial, sn) == serial = sn

\* line 79
SerialMatches(serial, sn) == serial = sn \/ serial = lower_sn(sn)

\* lines 75-84: the first device of l whose serial matches, Null when none does
RECURSIVE ScanFrom(_, _, _)
ScanFrom(l, sn, i) ==
    IF i > Len(l) THEN Null
    ELSE IF SerialMatches(l[i], sn) THEN l[i]
    ELSE ScanFrom(l, sn, i + 1)

Scan(l, sn) == ScanFrom(l, sn, 1)
\* the segment outlives the last claim of the cohort
CohortFullLate(num, n) == num > n

\* line 115
CohortFull(num, n) == num >= n
\* the semaphore is never unlinked by the last claim of the cohort
CohortCompleteLate(num, n) == num > n

\* line 128
CohortComplete(num, n) == num = n

\* line 183
HeldSerialRemoved(info, serial) == info # Null /\ serial = info

\* Semaphores and segments are kernel objects reached through a name (or key)
\* and through the handles processes hold.  An instance nobody can reach any
\* more is forgotten, and the instances are numbered in a fixed order (the
\* named one first, then by holder), so that a state does not depend on which
\* number an instance happened to get.
ProcSeq == <<"A", "B">>

IsLive(s, name, handles) == s = name \/ \E q \in Procs : handles[q] = s

Fresh(ids, name, handles) ==
    CHOOSE s \in ids : ~IsLive(s, name, handles)

\* The new number of every instance (0: forgotten): map so far, next free
\* number, and the processes from the i-th on still to look at.
RECURSIVE Renumber(_, _, _, _)
Renumber(map, next, handles, i) ==
    IF i > Len(ProcSeq) THEN map
    ELSE LET h == handles[ProcSeq[i]]
         IN IF h = 0 \/ map[h] # 0
            THEN Renumber(map, next, handles, i + 1)
            ELSE Renumber([map EXCEPT ![h] = next], next + 1, handles, i + 1)

Renumbered(ids, name, handles, val, map) ==
    [name |-> IF name = 0 THEN 0 ELSE 1,
     handles |-> [q \in Procs |-> IF handles[q] = 0 THEN 0 ELSE map[handles[q]]],
     val |-> [i \in ids |-> IF \E s \in ids : map[s] = i
                            THEN val[CHOOSE s \in ids : map[s] = i] ELSE 0]]

Canon(ids, name, handles, val) ==
    CHOOSE c \in {Renumbered(ids, name, handles, val, map) :
                    map \in {Renumber([s \in ids |-> IF s = name THEN 1 ELSE 0],
                                      IF name = 0 THEN 1 ELSE 2, handles, 1)}} : TRUE

\* The semaphore's name, handles and values after a step
Sems(name, handles, val) ==
    \E c \in {Canon(SemIds, name, handles, val)} :
       /\ sem_name' = c.name
       /\ device_sem' = c.handles
       /\ sem_val' = c.val

\* The segment's key, handles and values after a step
Segs(key, handles, val) ==
    \E c \in {Canon(SegIds, key, handles, val)} :
       /\ shm_key' = c.name
       /\ shm_id' = c.handles
       /\ shm_val' = c.val

\* External calls fail at most MaxFaults times in a behaviour; a failure that
\* leaves every variable of the program as it was is not counted.
Fault == faults < MaxFaults /\ faults' = faults + 1
NoFault == faults' = faults

Note(p, what) == last' = [last EXCEPT ![p] = what]

\* -------------------------------------------------------------------- Init

\* lines 10-13 and 27-43: everything but the two parameters
Constructed ==
    /\ proc = [p \in Procs |-> "running"]
    /\ is_alive_ = [p \in Procs |-> TRUE]
    /\ query = [p \in Procs |-> "top"]
    /\ device_lock_ = [p \in Procs |-> "free"]
    /\ device_ = [p \in Procs |-> Null]
    /\ device_info_ = [p \in Procs |-> Null]
    /\ device_connected_ = [p \in Procs |-> FALSE]
    /\ ob_camera_node_ = [p \in Procs |-> FALSE]
    /\ pc = [p \in Procs |-> "idle"]
    /\ device = [p \in Procs |-> Null]
    /\ device_sem = [p \in Procs |-> 0]
    /\ sem_held = [p \in Procs |-> FALSE]
    /\ num_of_connected_devices = [p \in Procs |-> 0]
    /\ shm_id = [p \in Procs |-> 0]
    /\ sem_name = 0
    /\ sem_val = [s \in SemIds |-> 0]
    /\ shm_key = 0
    /\ shm_val = [s \in SegIds |-> 0]
    /\ faults = 0
    /\ last = [p \in Procs |-> "none"]

Init ==
    /\ serial_number_ \in Configs
    /\ device_num_ \in 1..MaxCohort
    /\ Constructed


\* ------------------------------------------------------------ control flow

Active(p) == proc[p] \in {"running", "joining"}

\* A thread leaves startDevice and its caller, by return or by an exception
\* the caller handles.  The watchdog then sleeps (line 229) and drops the lock
\* at the end of its iteration.
Leave(p, owner) ==
    /\ pc' = [pc EXCEPT ![p] = "idle"]
    /\ device' = [device EXCEPT ![p] = Null]
    /\ device_lock_' = [device_lock_ EXCEPT ![p] = "free"]
    /\ query' = [query EXCEPT ![p] = IF owner = "query" THEN "top" ELSE @]
    /\ UNCHANGED <<proc, is_alive_>>

\* The process is gone (status "aborted": CHECK_NOTNULL failed or an exception
\* reached the top of a thread; "destroyed": the destructor returned).  Its
\* objects and handles no longer exist; held and val are what it leaves of
\* the semaphore.
Gone(p, status, cause, held, val) ==
    /\ proc' = [proc EXCEPT ![p] = status]
    /\ is_alive_' = [is_alive_ EXCEPT ![p] = FALSE]
    /\ query' = [query EXCEPT ![p] = "done"]
    /\ device_lock_' = [device_lock_ EXCEPT ![p] = "free"]
    /\ device_' = [device_ EXCEPT ![p] = Null]
    /\ device_info_' = [device_info_ EXCEPT ![p] = Null]
    /\ device_connected_' = [device_connected_ EXCEPT ![p] = FALSE]
    /\ ob_camera_node_' = [ob_camera_node_ EXCEPT ![p] = FALSE]
    /\ pc' = [pc EXCEPT ![p] = "idle"]
    /\ device' = [device EXCEPT ![p] = Null]
    /\ sem_held' = [sem_held EXCEPT ![p] = held]
    /\ num_of_connected_devices' = [num_of_connected_devices EXCEPT ![p] = 0]
    /\ Sems(sem_name, [device_sem EXCEPT ![p] = 0], val)
    /\ Segs(shm_key, [shm_id EXCEPT ![p] = 0], shm_val)
    /\ Note(p, cause)
    /\ UNCHANGED config

\* An exception leaving startDevice: queryDevice catches it (lines 221-227);
\* deviceConnectCallback does not, and the library that invoked the callback
\* either swallows it or lets the process terminate.
MayTerminate(owner) == owner = "hotplug"

\* The thread goes on inside startDevice, at position next.
Goto(p, owner, next) ==
    /\ pc' = [pc EXCEPT ![p] = next]
    /\ device_lock_' = [device_lock_ EXCEPT ![p] = owner]
    /\ query' = [query EXCEPT ![p] = IF owner = "query" THEN "start" ELSE @]
    /\ UNCHANGED <<proc, is_alive_>>

\* What startDevice leaves alone up to line 66.
EntryFrame ==
    UNCHANGED <<config, device_info_, device_connected_, ob_camera_node_, sem_held,
                num_of_connected_devices, shm_id, shm_key, shm_val>>

\* the last device of the list instead of the first
getDeviceLast(l) == l[Len(l)]

\* line 57: list->getDevice(0)
getDevice0(l) == l[1]

\* lines 54-57, no serial number configured: the first device of the list
StartDefault(p, l, owner) ==
    /\ serial_number_[p] = <<>>
    /\ NoFault
    /\ device_' = [device_ EXCEPT ![p] = getDevice0(l)]
    /\ Goto(p, owner, "construct")
    /\ Note(p, "none")
    /\ UNCHANGED <<device, device_sem, sem_name, sem_val>>
    /\ EntryFrame

\* line 57: getDevice(0) throws, or hands back null and CHECK_NOTNULL(device_)
\* (line 135) terminates the process
StartDefaultFails(p, l, owner) ==
    /\ serial_number_[p] = <<>>
    /\ \/ /\ NoFault
          /\ Leave(p, owner)
          /\ Note(p, "none")
          /\ UNCHANGED <<device_, device_sem, sem_name, sem_val>>
          /\ EntryFrame
       \/ /\ Fault
          /\ Gone(p, "aborted", "null_device", sem_held[p], sem_val)

\* lines 58-62: sem_open(DEFAULT_SEM_NAME, O_CREAT, 0644, 1)
StartSerial(p, l, owner) ==
    /\ serial_number_[p] # <<>>
    /\ NoFault
    /\ LET s == IF sem_name = 0 THEN Fresh(SemIds, sem_name, device_sem) ELSE sem_name
       IN Sems(s, [device_sem EXCEPT ![p] = s],
               IF sem_name = 0 THEN [sem_val EXCEPT ![s] = 1] ELSE sem_val)
    /\ device' = [device EXCEPT ![p] = Scan(l, serial_number_[p])]
    /\ Goto(p, owner, "sem_wait")
    /\ Note(p, "none")
    /\ UNCHANGED device_
    /\ EntryFrame

\* lines 63-66: SEM_FAILED
StartSerialFails(p, l, owner) ==
    /\ serial_number_[p] # <<>>
    /\ NoFault
    /\ Leave(p, owner)
    /\ Note(p, "none")
    /\ UNCHANGED <<device_, device_sem, sem_name, sem_val>>
    /\ EntryFrame

\* lines 45-66, entered with device_ null and a non-empty list by a thread
\* that can lock device_lock_
StartDevice(p, l, owner) ==
    /\ device_lock_[p] = "free"
    /\ device_[p] = Null
    /\ Len(l) > 0
    /\ \/ StartDefault(p, l, owner)
       \/ StartDefaultFails(p, l, owner)
       \/ StartSerial(p, l, owner)
       \/ StartSerialFails(p, l, owner)

\* ------------------------------------------------------ queryDevice (watchdog)

\* lines 211-215: the loop ends on shutdown or once a device is held
QueryExit(p) ==
    /\ Active(p)
    /\ query[p] = "top"
    /\ \/ ~is_alive_[p]
       \/ /\ device_lock_[p] = "free"
          /\ device_[p] # Null
    /\ query' = [query EXCEPT ![p] = "done"]
    /\ UNCHANGED <<config, manager, frame, proc, is_alive_, device_lock_, shared,
                   faults, last>>

QueryGuard(p) ==
    /\ Active(p)
    /\ query[p] = "top"
    /\ is_alive_[p]
    /\ device_lock_[p] = "free"
    /\ device_[p] = Null

\* lines 216-229 with a non-empty enumeration
QueryDevice(p, l) ==
    /\ QueryGuard(p)
    /\ StartDevice(p, l, "query")
\* an empty enumeration is handed on and the semaphore is opened for it
QueryDeviceEmptyOpens(p) ==
    /\ QueryGuard(p)
    /\ Note(p, "empty")
    /\ IF sem_name = 0
       THEN LET s == Fresh(SemIds, sem_name, device_sem)
            IN Sems(s, device_sem, [sem_val EXCEPT ![s] = 1])
       ELSE UNCHANGED <<sem_name, device_sem, sem_val>>
    /\ UNCHANGED <<config, manager, pc, device, sem_held, num_of_connected_devices,
                   shm_id, threads, shm_key, shm_val, faults>>

\* lines 216-229 with an empty enumeration: sleep and go round
QueryDeviceEmpty(p) ==
    /\ QueryGuard(p)
    /\ Note(p, "empty")
    /\ UNCHANGED <<config, manager, frame, threads, shared, faults>>

\* lines 216-217: queryDeviceList throws (outside the try block of lines
\* 219-227) or returns null (CHECK_NOTNULL): the process terminates
QueryDeviceFails(p) ==
    /\ QueryGuard(p)
    /\ Fault
    /\ Gone(p, "aborted", "enum_failed", sem_held[p], sem_val)

\* --------------------------------------------------- startDevice, lines 72-133

InStart(p, at) == Active(p) /\ pc[p] = at

Owner(p) == device_lock_[p]

\* lines 72-84: sem_wait returns 0, then the scan of the list
SemWait(p) ==
    /\ InStart(p, "sem_wait")
    /\ sem_val[device_sem[p]] > 0
    /\ NoFault
    /\ sem_val' = [sem_val EXCEPT ![device_sem[p]] = @ - 1]
    /\ sem_held' = [sem_held EXCEPT ![p] = TRUE]
    /\ device_' = [device_ EXCEPT ![p] = device[p]]
    /\ pc' = [pc EXCEPT ![p] = IF device[p] = Null THEN "no_match" ELSE "shmget"]
    /\ device' = [device EXCEPT ![p] = Null]
    /\ UNCHANGED <<config, device_info_, device_connected_, ob_camera_node_, device_sem,
                   num_of_connected_devices, shm_id, threads, sem_name, shm_key,
                   shm_val, last>>

\* lines 72-78: sem_wait returns 0, then getDevice or getDeviceInfo throws in
\* the scan; nothing between lines 72 and 92/123 catches, so no sem_post runs
SemWaitScanThrows(p) ==
    /\ InStart(p, "sem_wait")
    /\ sem_val[device_sem[p]] > 0
    /\ Fault
    /\ LET val == [sem_val EXCEPT ![device_sem[p]] = @ - 1]
       IN \/ /\ sem_held' = [sem_held EXCEPT ![p] = TRUE]
             /\ Sems(sem_name, [device_sem EXCEPT ![p] = 0], val)
             /\ Leave(p, Owner(p))
             /\ Note(p, "none")
             /\ UNCHANGED <<config, manager, num_of_connected_devices, shm_id,
                            shm_key, shm_val>>
          \/ /\ MayTerminate(Owner(p))
             /\ Gone(p, "aborted", "uncaught", TRUE, val)

\* lines 72-73, 85-87: sem_wait returns -1 (EINTR)
SemWaitFails(p) ==
    /\ InStart(p, "sem_wait")
    /\ Fault
    /\ pc' = [pc EXCEPT ![p] = "wait_failed"]
    /\ device' = [device EXCEPT ![p] = Null]
    /\ UNCHANGED <<config, manager, device_sem, sem_held, num_of_connected_devices,
                   shm_id, threads, shared, last>>

\* lines 89-97: device_ is null, whether the scan found nothing (pc no_match)
\* or sem_wait failed (pc wait_failed): sem_post and return
NoMatchPost(p) ==
    /\ InStart(p, "no_match") \/ InStart(p, "wait_failed")
    /\ NoFault
    /\ sem_held' = [sem_held EXCEPT ![p] = FALSE]
    /\ Sems(sem_name, [device_sem EXCEPT ![p] = 0],
            [sem_val EXCEPT ![device_sem[p]] = @ + 1])
    /\ Leave(p, Owner(p))
    /\ Note(p, "none")
    /\ UNCHANGED <<config, manager, num_of_connected_devices, shm_id, shm_key, shm_val>>

\* lines 100-110: shmget(IPC_CREAT), shmat, read the counter
ShmGet(p) ==
    /\ InStart(p, "shmget")
    /\ NoFault
    /\ LET s == IF shm_key = 0 THEN Fresh(SegIds, shm_key, shm_id) ELSE shm_key
           v == IF shm_key = 0 THEN 0 ELSE shm_val[s]
       IN /\ Segs(s, [shm_id EXCEPT ![p] = s], [shm_val EXCEPT ![s] = v])
          /\ num_of_connected_devices' = [num_of_connected_devices EXCEPT ![p] = v + 1]
    /\ pc' = [pc EXCEPT ![p] = "shm_write"]
    /\ UNCHANGED <<config, manager, device, device_sem, sem_held, threads, sem_name,
                   sem_val, last>>

\* the claim is given up when the segment cannot be had: startDevice returns
ShmGetFailsReturns(p) ==
    /\ InStart(p, "shmget")
    /\ Fault
    /\ device_' = [device_ EXCEPT ![p] = Null]
    /\ Leave(p, Owner(p))
    /\ UNCHANGED <<config, device_info_, device_connected_, ob_camera_node_, device_sem,
                   sem_held, num_of_connected_devices, shm_id, shared, last>>

\* lines 101-102: shmget fails; lines 106-107: shmat fails after shmget made
\* or found the segment.  The counter is skipped.
ShmGetFails(p) ==
    /\ InStart(p, "shmget")
    /\ Fault
    /\ \/ UNCHANGED <<shm_key, shm_id, shm_val>>
       \/ /\ shm_key = 0
          /\ LET s == Fresh(SegIds, shm_key, shm_id)
             IN Segs(s, shm_id, [shm_val EXCEPT ![s] = 0])
    /\ pc' = [pc EXCEPT ![p] = "sem_post"]
    /\ UNCHANGED <<config, manager, device, device_sem, sem_held,
                   num_of_connected_devices, threads, sem_name, sem_val, last>>

\* lines 112-115: write the counter back, shmdt
ShmWrite(p) ==
    /\ InStart(p, "shm_write")
    /\ NoFault
    /\ LET full == CohortFull(num_of_connected_devices[p], device_num_)
       IN /\ pc' = [pc EXCEPT ![p] = IF full THEN "shm_rmid" ELSE "sem_post"]
          /\ Segs(shm_key, [shm_id EXCEPT ![p] = IF full THEN @ ELSE 0],
                  [shm_val EXCEPT ![shm_id[p]] = num_of_connected_devices[p]])
    /\ UNCHANGED <<config, manager, device, device_sem, sem_held,
                   num_of_connected_devices, threads, sem_name, sem_val, last>>

\* lines 115-118: shmctl(shm_id, IPC_RMID); an id removed meanwhile is refused
ShmRmid(p) ==
    /\ InStart(p, "shm_rmid")
    /\ NoFault
    /\ Segs(IF shm_key = shm_id[p] THEN 0 ELSE shm_key, [shm_id EXCEPT ![p] = 0], shm_val)
    /\ pc' = [pc EXCEPT ![p] = "sem_post"]
    /\ UNCHANGED <<config, manager, device, device_sem, sem_held,
                   num_of_connected_devices, threads, sem_name, sem_val, last>>

\* lines 122-133: sem_post, then sem_unlink when the cohort is complete
\* (sem_destroy on a semaphore that sem_open returned does nothing in glibc)
SemPost(p) ==
    /\ InStart(p, "sem_post")
    /\ NoFault
    /\ sem_held' = [sem_held EXCEPT ![p] = FALSE]
    /\ Sems(IF CohortComplete(num_of_connected_devices[p], device_num_) THEN 0 ELSE sem_name,
            [device_sem EXCEPT ![p] = 0],
            [sem_val EXCEPT ![device_sem[p]] = @ + 1])
    /\ num_of_connected_devices' = [num_of_connected_devices EXCEPT ![p] = 0]
    /\ pc' = [pc EXCEPT ![p] = "construct"]
    /\ UNCHANGED <<config, manager, device, shm_id, threads, shm_key, shm_val, last>>

\* lines 135-148: the session is constructed and the manager is connected
Construct(p) ==
    /\ InStart(p, "construct")
    /\ NoFault
    /\ ob_camera_node_' = [ob_camera_node_ EXCEPT ![p] = TRUE]
    /\ device_connected_' = [device_connected_ EXCEPT ![p] = TRUE]
    /\ device_info_' = [device_info_ EXCEPT ![p] = device_[p]]
    /\ Leave(p, Owner(p))
    /\ Note(p, "none")
    /\ UNCHANGED <<config, device_, device_sem, sem_held, num_of_connected_devices,
                   shm_id, shared>>

\* line 139: the OBCameraNode constructor throws (after line 137 dropped any
\* old session); nothing resets device_
ConstructThrows(p) ==
    /\ InStart(p, "construct")
    /\ Fault
    /\ \/ /\ ob_camera_node_' = [ob_camera_node_ EXCEPT ![p] = FALSE]
          /\ Leave(p, Owner(p))
          /\ Note(p, "none")
          /\ UNCHANGED <<config, device_, device_info_, device_connected_, device_sem,
                         sem_held, num_of_connected_devices, shm_id, shared>>
       \/ /\ MayTerminate(Owner(p))
          /\ Gone(p, "aborted", "uncaught", sem_held[p], sem_val)

\* lines 139-142: the session is built and device_connected_ set, then
\* getDeviceInfo throws, or hands back null and CHECK_NOTNULL(device_info_)
\* terminates the process
DeviceInfoFails(p) ==
    /\ InStart(p, "construct")
    /\ Fault
    /\ \/ /\ ob_camera_node_' = [ob_camera_node_ EXCEPT ![p] = TRUE]
          /\ device_connected_' = [device_connected_ EXCEPT ![p] = TRUE]
          /\ Leave(p, Owner(p))
          /\ Note(p, "none")
          /\ UNCHANGED <<config, device_, device_info_, device_sem, sem_held,
                         num_of_connected_devices, shm_id, shared>>
       \/ Gone(p, "aborted", "null_info", sem_held[p], sem_val)

\* ------------------------------------------------------------ hotplug callbacks

\* lines 156-170 with a non-empty list and no device held
DeviceConnect(p, l) ==
    /\ proc[p] = "running"
    /\ StartDevice(p, l, "hotplug")

\* lines 158-161 (empty list, returns before locking) and lines 167-169
\* (a device is already held)
DeviceConnectNoop(p, l) ==
    /\ proc[p] = "running"
    /\ \/ /\ l = <<>>
          /\ Note(p, IF device_lock_[p] = "free" /\ device_[p] = Null THEN "empty" ELSE last[p])
       \/ /\ l # <<>>
          /\ device_lock_[p] = "free"
          /\ device_[p] # Null
          /\ UNCHANGED last
    /\ UNCHANGED <<config, manager, frame, threads, shared, faults>>

\* lines 180-191: whether some serial of the removed list is the held one
Removed(p, l) == \E i \in 1..Len(l) : HeldSerialRemoved(device_info_[p], l[i])

\* lines 172-192
DeviceDisconnect(p, l) ==
    /\ proc[p] = "running"
    /\ l # <<>>
    /\ device_lock_[p] = "free"
    /\ IF Removed(p, l)
       THEN /\ ob_camera_node_' = [ob_camera_node_ EXCEPT ![p] = FALSE]
            /\ device_' = [device_ EXCEPT ![p] = Null]
            /\ device_info_' = [device_info_ EXCEPT ![p] = Null]
            /\ device_connected_' = [device_connected_ EXCEPT ![p] = FALSE]
       ELSE UNCHANGED manager
    /\ IF \E i \in 1..Len(l) : l[i] = device_[p]
       THEN Note(p, "removed")
       ELSE UNCHANGED last
    /\ UNCHANGED <<config, frame, threads, shared, faults>>

\* ------------------------------------------------------------------ destructor

\* lines 16-21: is_alive_ = false, sem_unlink, shmget(IPC_CREAT) + IPC_RMID
Shutdown(p) ==
    /\ proc[p] = "running"
    /\ proc' = [proc EXCEPT ![p] = "joining"]
    /\ is_alive_' = [is_alive_ EXCEPT ![p] = FALSE]
    /\ Sems(0, device_sem, sem_val)
    /\ Segs(0, shm_id, shm_val)
    /\ UNCHANGED <<config, manager, pc, device, sem_held, num_of_connected_devices,
                   query, device_lock_, faults, last>>

\* lines 22-24: join returns once the watchdog thread has ended
Join(p) ==
    /\ proc[p] = "joining"
    /\ query[p] = "done"
    /\ Gone(p, "destroyed", "none", sem_held[p], sem_val)
    /\ UNCHANGED faults

\* -------------------------------------------------------------------- Next

Next ==
    \E p \in Procs :
       \/ QueryExit(p)
       \/ \E l \in Lists : QueryDevice(p, l)
       \/ QueryDeviceEmpty(p)
       \/ QueryDeviceFails(p)
       \/ SemWait(p)
       \/ SemWaitScanThrows(p)
       \/ SemWaitFails(p)
       \/ NoMatchPost(p)
       \/ ShmGet(p)
       \/ ShmGetFails(p)
       \/ ShmWrite(p)
       \/ ShmRmid(p)
       \/ SemPost(p)
       \/ Construct(p)
       \/ ConstructThrows(p)
       \/ DeviceInfoFails(p)
       \/ \E l \in Lists : DeviceConnect(p, l)
       \/ \E l \in Lists : DeviceConnectNoop(p, l)
       \/ \E l \in Lists : DeviceDisconnect(p, l)
       \/ Shutdown(p)
       \/ Join(p)

Spec == Init /\ [][Next]_vars


\* ------------------------------------------------------------------ claims

Connected(p) == device_connected_[p]

\* Between a successful sem_wait (line 72) and the sem_post of the same call
\* (line 92 or 123).
InSection(p) == pc[p] \in {"no_match", "shmget", "shm_write", "shm_rmid", "sem_post"}

\* C1: two processes configured with the same serial number are never both
\* Connected holding the device with that serial number.
C1_AtMostOneHolder ==
    \A p, q \in Procs :
        (p # q /\ serial_number_[p] # <<>> /\ serial_number_[p] = serial_number_[q])
            => ~(/\ Connected(p) /\ Connected(q)
                 /\ device_[p] # Null /\ device_[p] = device_[q])

\* C2: at most one process is between a successful sem_wait and its sem_post.
C2_MutualExclusion ==
    \A p, q \in Procs : p # q => ~(InSection(p) /\ InSection(q))

\* C4: no call of startDevice ends with the semaphore still held: a process
\* outside startDevice holds no semaphore.
C4_ReleasedOnEveryExit ==
    \A p \in Procs : (Active(p) /\ pc[p] = "idle") => ~sem_held[p]

\* C5: once an attempt is over and the manager is not Connected, no device is
\* held (so the next trigger can claim again).
C5_RolledBackToIdle ==
    \A p \in Procs :
        (Active(p) /\ pc[p] = "idle" /\ ~Connected(p)) => device_[p] = Null

\* C6: a failed enumeration in the watchdog leaves the process running.
C6_EnumerationErrorCaught ==
    \A p \in Procs : last[p] = "enum_failed" => proc[p] # "aborted"

\* C7: after a removal event that lists the serial number of the held device
\* the manager is not Connected.
C7_RemovalDisconnects ==
    \A p \in Procs : last[p] = "removed" => ~Connected(p)

\* C8: the counter of the existing segment never exceeds the cohort size.
C8_CounterBounded ==
    shm_key # 0 => shm_val[shm_key] <= device_num_

\* C10: a claim attempt with an empty candidate list changes nothing of the
\* manager, of the attempt's locals, of the threads or of the shared objects.
C10_EmptyListChangesNothing ==
    [][\A p \in Procs :
          (last[p] # "empty" /\ last'[p] = "empty")
              => UNCHANGED <<config, manager, frame, threads, shared>>]_vars

C10_Witness ==
    \E p \in Procs : last[p] = "empty" /\ shm_key # 0 /\ sem_name # 0

\* ------------------------------------------------- the cohort scenario (fair)

\* N processes with N distinct serial numbers, every device present in every
\* enumeration, no failure, no removal, no shutdown.
Present == {l \in Lists : Len(l) = Cardinality(DeviceSerials)}

LiveInit ==
    /\ Init
    /\ \A p, q \in Procs : serial_number_[p] # <<>> /\ (p # q => serial_number_[p] # serial_number_[q])

\* the steps of the threads of process p (lines 62-148 and 210-231)
ThreadStep(p) ==
    \/ QueryExit(p)
    \/ \E l \in Present : QueryDevice(p, l)
    \/ SemWait(p)
    \/ ShmGet(p)
    \/ ShmWrite(p)
    \/ ShmRmid(p)
    \/ SemPost(p)
    \/ Construct(p)

LiveNext ==
    \E p \in Procs :
        \/ ThreadStep(p)
        \/ \E l \in Present : DeviceConnect(p, l)

\* every thread that can take a step eventually takes one
LiveSpec == LiveInit /\ [][LiveNext]_vars /\ \A p \in Procs : WF_vars(ThreadStep(p))

CohortOfAll == device_num_ = Cardinality(Procs)

Counted(p) == device_[p] # Null /\ pc[p] \notin {"shmget", "shm_write"}

\* C9: the k-th claim of a cohort of N (k <= N) raises the counter from k-1 to
\* k, and when it releases the semaphore the segment is kept with counter k
\* if k < N and is gone if k = N.
C9_KthClaimCounts ==
    [][\A p \in Procs :
          LET k == Cardinality({q \in Procs : Counted(q)}) + 1
          IN /\ (ShmWrite(p) /\ k <= device_num_)
                   => /\ shm_val[shm_id[p]] = k - 1
                      /\ num_of_connected_devices[p] = k
                      /\ shm_val'[shm_id[p]] = k
             /\ (SemPost(p) /\ k - 1 <= device_num_)
                   => IF num_of_connected_devices[p] = device_num_
                      THEN shm_key = 0
                      ELSE shm_key # 0 /\ shm_val[shm_key] = num_of_connected_devices[p]]_vars

C9_Witness ==
    \E p, q \in Procs :
        /\ device_connected_[p]
        /\ pc[q] = "sem_post"
        /\ num_of_connected_devices[q] = 2
        /\ device_num_ = 2
        /\ shm_key = 0

\* C11: a process without a serial number that claims from a non-empty list
\* takes the first device of that list, and no step of its claim attempt
\* touches the semaphore or the segment.
C11_DefaultTakesFirst ==
    [][\A p \in Procs :
          serial_number_[p] = <<>> =>
             /\ \A l \in Lists :
                   ((QueryDevice(p, l) \/ DeviceConnect(p, l)) /\ device_'[p] # Null)
                       => device_'[p] = l[1]
             /\ pc'[p] # pc[p]
                   => /\ UNCHANGED <<shared, device_sem, sem_held, shm_id>>
                      /\ pc[p] \in {"idle", "construct"}
                      /\ pc'[p] \in {"idle", "construct"}]_vars

C11_Witness ==
    \E p, q \in Procs :
        /\ serial_number_[p] = <<>>
        /\ Connected(p)
        /\ device_info_[p] = <<89>>
        /\ InSection(q)

\* ----------------------------------------------- the scan on its own

\* Serial numbers "A1", "a1", "a2", "A", "a", as devices report them and as
\* configured
ScanSerials == {<<65, 49>>, <<97, 49>>, <<97, 50>>, <<65>>, <<97>>}

ScanLists == UNION {[1..n -> ScanSerials] : n \in 0..MaxList}

ScanInit ==
    /\ serial_number_ \in [Procs -> ScanSerials]
    /\ device_num_ = 1
    /\ Constructed

\* lines 75-84 applied to the list l
ScanStep(p, l) ==
    /\ device' = [device EXCEPT ![p] = Scan(l, serial_number_[p])]
    /\ UNCHANGED <<config, manager, pc, device_sem, sem_held, num_of_connected_devices,
                   shm_id, threads, shared, faults, last>>

ScanNext == \E p \in Procs : \E l \in ScanLists : ScanStep(p, l)

ScanSpec == ScanInit /\ [][ScanNext]_vars

\* the upper-case letters of sn replaced by their lower-case letters
LowerCased(sn) == [i \in 1..Len(sn) |-> IF sn[i] \in 65..90 THEN sn[i] + 32 ELSE sn[i]]

\* C12: the scan yields the first device of the list, in list order, whose
\* serial number is the configured one or its lower-cased form, and no device
\* when the list has none.
C12_ScanFirstMatch ==
    [][\A p \in Procs : \A l \in ScanLists :
          ScanStep(p, l) =>
             LET sn == serial_number_[p]
                 hits == {i \in 1..Len(l) : l[i] = sn \/ l[i] = LowerCased(sn)}
             IN IF hits = {}
                THEN device'[p] = Null
                ELSE \E i \in hits : /\ \A j \in hits : i <= j
                                     /\ device'[p] = l[i]]_vars

\* "A1" configured, "a1" found
C12_Witness ==
    \E p \in Procs : serial_number_[p] = <<65, 49>> /\ device[p] = <<97, 49>>

\* C13: while the process runs and the manager is Idle (no device held, not
\* Connected) the watchdog loop has not ended.
C13_WatchdogRuns ==
    \A p \in Procs :
        (proc[p] = "running" /\ ~Connected(p) /\ device_[p] = Null)
            => query[p] # "done"

\* C14: a process holds no semaphore when it enters startDevice (the settle
\* delay of line 54) nor while it constructs the session (lines 135-142).
C14_NotHeldOutsideSection ==
    [][\A p \in Procs :
          /\ (pc[p] = "idle" /\ pc'[p] # "idle") => ~sem_held[p]
          /\ pc[p] = "construct" => ~sem_held[p]]_vars

\* C15: the counter of the segment counts distinct processes, so it is never
\* more than the number of processes that claim by serial number.
C15_CountsDistinctProcesses ==
    shm_key # 0 =>
        shm_val[shm_key] <= Cardinality({p \in Procs : serial_number_[p] # <<>>})

\* C16: when shmget or shmat fails in a claim by serial number, the claim goes
\* on with the matched device: the counter keeps its value, the semaphore is
\* posted (and not unlinked) and the process is at the session construction.
C16_DegradedClaimGoesOn ==
    [][\A p \in Procs :
          /\ (pc[p] = "shmget" /\ pc'[p] \notin {"shmget", "shm_write"} /\ Active(p)')
                => /\ pc'[p] = "sem_post"
                   /\ device_[p] # Null
                   /\ device_'[p] = device_[p]
                   /\ sem_held'[p]
                   /\ IF shm_key # 0
                      THEN shm_key' # 0 /\ shm_val'[shm_key'] = shm_val[shm_key]
                      ELSE shm_key' = 0 \/ shm_val'[shm_key'] = 0
          /\ (pc[p] = "sem_post" /\ num_of_connected_devices[p] = 0
                /\ pc'[p] # "sem_post" /\ Active(p)')
                => /\ pc'[p] = "construct"
                   /\ device_'[p] = device_[p]
                   /\ ~sem_held'[p]
                   /\ (sem_name # 0 /\ device_sem[p] = sem_name)
                         => sem_val'[sem_name] = sem_val[sem_name] + 1
                   /\ UNCHANGED <<sem_name, shm_key, shm_val>>]_vars

\* a process that claimed by serial number is Connected, and neither the
\* segment nor the end of the cohort shows its claim
C16_Witness ==
    \E p, q \in Procs :
        /\ serial_number_[q] = <<>> /\ proc[q] = "running"
        /\ serial_number_[p] # <<>> /\ Connected(p) /\ device_info_[p] = <<120>>
        /\ device_num_ = 2
        /\ faults = 1
        /\ shm_key = 0
        /\ sem_name # 0

\* C17: a null device or a null device info found by startDevice does not end
\* the process.
C17_NullEndsOnlyAttempt ==
    \A p \in Procs : last[p] \in {"null_device", "null_info"} => proc[p] # "aborted"

\* ------------------------------------------------- shutdown (fair threads)

\* the steps the watchdog thread and the destructor's join take on their own
WatchdogStep(p) ==
    \/ QueryExit(p)
    \/ \E l \in Lists : QueryDevice(p, l)
    \/ QueryDeviceEmpty(p)
    \/ SemWait(p)
    \/ NoMatchPost(p)
    \/ ShmGet(p)
    \/ ShmWrite(p)
    \/ ShmRmid(p)
    \/ SemPost(p)
    \/ Construct(p)
    \/ Join(p)

\* no hotplug events; the only failure is an exception in the scan
ShutdownNext ==
    \E p \in Procs :
        \/ WatchdogStep(p)
        \/ SemWaitScanThrows(p)
        \/ Shutdown(p)

\* a thread that can go on does go on
ShutdownSpec == Init /\ [][ShutdownNext]_vars /\ \A p \in Procs : WF_vars(WatchdogStep(p))

\* C18: once the destructor has cleared is_alive_, its join returns.
C18_ShutdownTerminates ==
    \A p \in Procs : (proc[p] = "joining") ~> (proc[p] = "destroyed")

\* C19: while no thread holds device_lock_, a device is held exactly when the
\* manager is Connected, exactly when a device info is recorded, exactly when
\* the session object exists.
C19_LocalStateConsistent ==
    \A p \in Procs :
        (Active(p) /\ device_lock_[p] = "free")
            => /\ (device_[p] # Null) <=> device_connected_[p]
               /\ device_connected_[p] <=> (device_info_[p] # Null)
               /\ device_connected_[p] <=> ob_camera_node_[p]

\* C20: the value of the named semaphore is never more than 1.
C20_SemaphoreIsBinary ==
    \A s \in SemIds : sem_val[s] <= 1

====
